---- MODULE Spec2Model ----
(***************************************************************************)
(* DeleteTaskService (quickwit-janitor/src/actors/delete_task_service.rs). *)
(*                                                                         *)
(* The service is an actor that owns pipeline_handles_by_index_uid, a map  *)
(* from IndexUid to the handle of a running DeleteTaskPipeline.  On        *)
(* initialization and then on every UpdatePipelines self-message it runs   *)
(* update_pipeline_handles: list the indexes of the metastore, kill the    *)
(* pipelines of the indexes that are gone, spawn a pipeline for each index *)
(* that has none, and schedule the next UpdatePipelines.                   *)
(*                                                                         *)
(* One action of the model is the code that runs between two .await        *)
(* points of the handler; the metastore changes (index created, index      *)
(* deleted) interleave freely with them.  An IndexUid is a pair            *)
(* <<index_id, incarnation>>; a created index always gets an incarnation   *)
(* never used before for that index_id.                                    *)
(***************************************************************************)
EXTENDS Integers, FiniteSets, Sequences, TLC

\* ------------------------------------------------------------------ bounds
NumIndexIds == 2   \* distinct index_id values
MaxCreates  == 3   \* indexes created over a run of the metastore
MaxWorkers  == 3   \* pipeline actors that can exist at the same time

IndexIds    == 1..NumIndexIds
Uids        == IndexIds \X (1..MaxCreates)
WorkerSlots == 1..MaxWorkers
NoUid       == <<0, 0>>
NoHandle    == <<>>

IndexIdOf(uid)     == uid[1]
IncarnationOf(uid) == uid[2]

VARIABLES
  \* ---- the metastore (external)
  store,            \* the IndexUids of the indexes that exist
  nextInc,          \* per index_id, the incarnation its next creation gets
  \* ---- the pipelines (actors spawned by the service)
  wstate,           \* per slot: "free", "live", "killing" (kill sent, not yet exited)
  wuid,             \* per slot: the IndexUid the pipeline was built with
  \* ---- DeleteTaskService
  pipeline_handles_by_index_uid,  \* function: IndexUid -> worker slot
  actorState,       \* "created", "initializing", "running", "exited", "panicked"
  pc,               \* where the handler is suspended
  scheduled,        \* UpdatePipelines timers armed by schedule_self_msg
  queued,           \* UpdatePipelines messages in the mailbox
  \* ---- locals of update_pipeline_handles / spawn_pipeline
  index_config_by_index_id,  \* keys of the map built from the listing
  index_uids,       \* keys of the listing
  pipeline_index_uids, \* keys of the handle map at the diff
  toRemove,         \* what is left of the first loop
  toSpawn,          \* what is left of the second loop
  cur,              \* the uid the current iteration is about
  pipeline_handle,  \* <<w>>: the handle removed from the map, about to be killed
  \* ---- history of the pass in progress (written, never read, by the actions)
  listResult,       \* "none", "ok", "err": the listing of the pass
  handlesAtStart,   \* the handle map when the pass began
  killRequested,    \* uids whose pipeline was sent a kill in this pass
  killAcked,        \* uids whose pipeline's kill returned in this pass
  spawnAttempted,   \* listed uids for which spawn_pipeline was called
  spawnFailed,      \* listed uids for which spawn_pipeline returned Err
  spawnedAs,        \* <<listed uid, key>> of each handle this pass inserted
  spawnCalls,       \* number of calls of spawn_pipeline in this pass
  fetchedAs,        \* <<listed uid, fetched uid>> of each pipeline this pass spawned
  \* ---- history of the pass that ended last (kept until the next one ends)
  lastOutcome,      \* "none", "clean", "spawn_err", "list_err"
  lastListing,      \* its listing, if it was clean; else {}
  changedSinceStart,\* the store changed since the current/last pass began
  converged,        \* a failure-free pass began and ended after the last change
  handledMsg,       \* a queued UpdatePipelines has been taken from the mailbox
  observed          \* <<n>>: the snapshot served since the last pass ended; else <<>>

storeVars   == <<store, nextInc>>
workerVars  == <<wstate, wuid>>
timerVars   == <<scheduled, queued>>
localVars   == <<index_config_by_index_id, index_uids, pipeline_index_uids,
                 toRemove, toSpawn, cur, pipeline_handle>>
attemptHistory == <<spawnCalls, fetchedAs>>
passHistory == <<listResult, handlesAtStart, killRequested, killAcked,
                 spawnAttempted, spawnFailed, spawnedAs, attemptHistory>>
lastHistory == <<lastOutcome, lastListing>>
obsHistory  == <<handledMsg, observed>>
convHistory == <<changedSinceStart, converged>>
vars == <<storeVars, workerVars, pipeline_handles_by_index_uid, actorState, pc,
          timerVars, localVars, passHistory, lastHistory, obsHistory, convHistory>>

\* ----------------------------------------------------------------- helpers
Keys(h) == DOMAIN h

EmptyMap == [u \in {} |-> 0]

\* mutant: the entry is read (get) and left in the map
MapRemove_Keep(h, uid) == h

\* HashMap::remove
MapRemove(h, uid) == [u \in Keys(h) \ {uid} |-> h[u]]

\* HashMap::insert: an existing entry of the key is replaced
MapInsert(h, uid, w) == [u \in Keys(h) \cup {uid} |-> IF u = uid THEN w ELSE h[u]]

\* observable_state()
num_running_pipelines == Cardinality(Keys(pipeline_handles_by_index_uid))

FreeSlots == {w \in WorkerSlots : wstate[w] = "free"}

Min(S) == CHOOSE x \in S : \A y \in S : x <= y

InPass == pc # "idle"

\* ------------------------------------------------------------ the metastore
RECURSIVE SumOver(_, _)
SumOver(f, S) == IF S = {} THEN 0
                 ELSE LET x == CHOOSE y \in S : TRUE IN f[x] + SumOver(f, S \ {x})

\* indexes created so far
NumCreated == SumOver(nextInc, IndexIds) - NumIndexIds

\* create_index: the index gets an IndexUid never used before
CreateIndex(id) ==
  /\ NumCreated < MaxCreates
  /\ \A u \in store : IndexIdOf(u) # id
  /\ store' = store \cup {<<id, nextInc[id]>>}
  /\ nextInc' = [nextInc EXCEPT ![id] = @ + 1]
  /\ changedSinceStart' = TRUE
  /\ converged' = FALSE
  /\ UNCHANGED <<workerVars, pipeline_handles_by_index_uid, actorState, pc,
                 timerVars, localVars, passHistory, lastHistory, obsHistory>>

\* delete_index
DeleteIndex(uid) ==
  /\ uid \in store
  /\ store' = store \ {uid}
  /\ changedSinceStart' = TRUE
  /\ converged' = FALSE
  /\ UNCHANGED <<nextInc, workerVars, pipeline_handles_by_index_uid, actorState, pc,
                 timerVars, localVars, passHistory, lastHistory, obsHistory>>

\* list_indexes_metadata(ListIndexesMetadataRequest::all()): the indexes that exist
ListIndexesMetadata == store

\* index_metadata(IndexMetadataRequest::for_index_id(index_id)): the uids (none or
\* one) of the index that now has this index_id
IndexMetadata(index_id) == {u \in store : IndexIdOf(u) = index_id}

\* ------------------------------------------------- update_pipeline_handles
\* mutant: no pipeline is ever taken for deleted
DeletedIndexUids_None(pipeline_uids, listed) == {}

\* mutant: every pipeline is taken for deleted (the difference is dropped)
DeletedIndexUids_All(pipeline_uids, listed) == pipeline_uids

\* mutant: the difference is taken the wrong way round
DeletedIndexUids_Swapped(pipeline_uids, listed) == listed \ pipeline_uids

\* pipeline_index_uids.difference(&index_uids)
DeletedIndexUids(pipeline_uids, listed) == pipeline_uids \ listed

\* mutant: every listed index is taken for new (the difference is dropped)
NewIndexUids_All(listed, pipeline_uids) == listed

\* index_uids.difference(&pipeline_index_uids)
NewIndexUids(listed, pipeline_uids) == listed \ pipeline_uids

\* mutant: the next UpdatePipelines is scheduled before the pass, not after it
StartPass_ScheduleFirst ==
  /\ pc' = "list"
  /\ scheduled' = scheduled + 1
  /\ handlesAtStart' = pipeline_handles_by_index_uid
  /\ changedSinceStart' = FALSE
  /\ observed' = <<>>
  /\ UNCHANGED <<storeVars, workerVars, pipeline_handles_by_index_uid,
                 localVars, listResult, killRequested, killAcked, spawnAttempted,
                 spawnFailed, spawnedAs, attemptHistory, lastHistory, converged>>

\* Entering handle(): the pass begins with the call of list_indexes_metadata.
StartPass ==
  /\ pc' = "list"
  /\ handlesAtStart' = pipeline_handles_by_index_uid
  /\ changedSinceStart' = FALSE
  /\ observed' = <<>>
  /\ UNCHANGED <<storeVars, workerVars, pipeline_handles_by_index_uid, scheduled,
                 localVars, listResult, killRequested, killAcked, spawnAttempted,
                 spawnFailed, spawnedAs, attemptHistory, lastHistory, converged>>

\* mutant: initialize only schedules the first UpdatePipelines
Initialize_NoPass ==
  /\ actorState = "created"
  /\ actorState' = "running"
  /\ scheduled' = scheduled + 1
  /\ UNCHANGED <<storeVars, workerVars, pipeline_handles_by_index_uid, pc, queued,
                 localVars, passHistory, lastHistory, obsHistory, convHistory>>

\* Actor::initialize: runs handle(UpdatePipelines) itself
Initialize ==
  /\ actorState = "created"
  /\ actorState' = "initializing"
  /\ StartPass
  /\ UNCHANGED <<queued, handledMsg>>

\* the actor takes an UpdatePipelines message from its mailbox
HandleUpdatePipelines ==
  /\ actorState = "running"
  /\ pc = "idle"
  /\ queued > 0
  /\ queued' = queued - 1
  /\ handledMsg' = TRUE
  /\ StartPass
  /\ UNCHANGED actorState

\* list_indexes_metadata(..).await? returned Ok and deserialized
ListOk ==
  /\ pc = "list"
  /\ index_config_by_index_id' = ListIndexesMetadata
  /\ index_uids' = ListIndexesMetadata
  /\ pipeline_index_uids' = Keys(pipeline_handles_by_index_uid)
  /\ toRemove' = DeletedIndexUids(Keys(pipeline_handles_by_index_uid), ListIndexesMetadata)
  /\ toSpawn' = NewIndexUids(ListIndexesMetadata, Keys(pipeline_handles_by_index_uid))
  /\ listResult' = "ok"
  /\ pc' = "remove"
  /\ UNCHANGED <<storeVars, workerVars, pipeline_handles_by_index_uid, actorState,
                 timerVars, cur, pipeline_handle, handlesAtStart, killRequested,
                 killAcked, spawnAttempted, spawnFailed, spawnedAs, attemptHistory, lastHistory, obsHistory, convHistory>>

\* mutant: a failed listing is taken for an empty one and the pass goes on
ListErr_AsEmpty ==
  /\ pc = "list"
  /\ listResult' = "err"
  /\ pipeline_index_uids' = Keys(pipeline_handles_by_index_uid)
  /\ toRemove' = DeletedIndexUids(Keys(pipeline_handles_by_index_uid), {})
  /\ pc' = "remove"
  /\ UNCHANGED <<storeVars, workerVars, pipeline_handles_by_index_uid, actorState,
                 timerVars, index_config_by_index_id, index_uids, toSpawn, cur,
                 pipeline_handle, handlesAtStart, killRequested, killAcked,
                 spawnAttempted, spawnFailed, spawnedAs, attemptHistory, lastHistory, obsHistory,
                 convHistory>>

\* list_indexes_metadata(..).await? or deserialize_indexes_metadata()? returned Err
ListErr ==
  /\ pc = "list"
  /\ listResult' = "err"
  /\ pc' = "schedule"
  /\ UNCHANGED <<pipeline_index_uids, toRemove>>
  /\ UNCHANGED <<storeVars, workerVars, pipeline_handles_by_index_uid, actorState,
                 timerVars, index_config_by_index_id, index_uids, toSpawn, cur,
                 pipeline_handle, handlesAtStart, killRequested, killAcked,
                 spawnAttempted, spawnFailed, spawnedAs, attemptHistory, lastHistory, obsHistory,
                 convHistory>>

\* ---- first loop: remove pipelines on deleted indexes
\* pipeline_handles_by_index_uid.remove(deleted_index_uid).expect("Handle must be present.")
RemoveNext ==
  /\ pc = "remove"
  /\ toRemove # {}
  /\ \E deleted_index_uid \in toRemove :
       /\ toRemove' = toRemove \ {deleted_index_uid}
       /\ cur' = deleted_index_uid
       /\ IF deleted_index_uid \in Keys(pipeline_handles_by_index_uid)
            THEN /\ pipeline_handle' = <<pipeline_handles_by_index_uid[deleted_index_uid]>>
                 /\ pipeline_handles_by_index_uid' =
                      MapRemove(pipeline_handles_by_index_uid, deleted_index_uid)
                 /\ pc' = "kill"
                 /\ UNCHANGED actorState
            ELSE /\ pc' = "panic"
                 /\ actorState' = "panicked"
                 /\ UNCHANGED <<pipeline_handle, pipeline_handles_by_index_uid>>
  /\ UNCHANGED <<storeVars, workerVars, timerVars, index_config_by_index_id, index_uids,
                 pipeline_index_uids, toSpawn, passHistory, lastHistory, obsHistory, convHistory>>

\* mutant: the kill is sent and not awaited
AfterKillSent_NoWait == "remove"

\* what the service does once the kill is sent: kill().await waits for the exit
AfterKillSent == "kill_wait"

\* pipeline_handle.kill(): the kill is sent to the pipeline
KillRequest ==
  /\ pc = "kill"
  /\ wstate' = [wstate EXCEPT ![pipeline_handle[1]] = "killing"]
  /\ killRequested' = killRequested \cup {cur}
  /\ pc' = AfterKillSent
  /\ UNCHANGED <<storeVars, wuid, pipeline_handles_by_index_uid, actorState, timerVars,
                 localVars, listResult, handlesAtStart, killAcked, spawnAttempted,
                 spawnFailed, spawnedAs, attemptHistory, lastHistory, obsHistory, convHistory>>

\* .await of kill() returns: the pipeline has exited
KillAck ==
  /\ pc = "kill_wait"
  /\ wstate[pipeline_handle[1]] = "killing"
  /\ wstate' = [wstate EXCEPT ![pipeline_handle[1]] = "free"]
  /\ wuid' = [wuid EXCEPT ![pipeline_handle[1]] = NoUid]
  /\ killAcked' = killAcked \cup {cur}
  /\ pipeline_handle' = NoHandle
  /\ pc' = "remove"
  /\ UNCHANGED <<storeVars, pipeline_handles_by_index_uid, actorState, timerVars,
                 index_config_by_index_id, index_uids, pipeline_index_uids, toRemove,
                 toSpawn, cur, listResult, handlesAtStart, killRequested,
                 spawnAttempted, spawnFailed, spawnedAs, attemptHistory, lastHistory, obsHistory,
                 convHistory>>

\* the first loop is over
RemoveDone ==
  /\ pc = "remove"
  /\ toRemove = {}
  /\ pc' = "spawn"
  /\ UNCHANGED <<storeVars, workerVars, pipeline_handles_by_index_uid, actorState,
                 timerVars, localVars, passHistory, lastHistory, obsHistory, convHistory>>

\* ---- second loop: start new pipelines
\* index_config_by_index_id.remove(index_uid).expect("Index metadata must be present.")
\* and the call of spawn_pipeline, up to storage_resolver.resolve(..).await
SpawnNext ==
  /\ pc = "spawn"
  /\ toSpawn # {}
  /\ \E index_uid \in toSpawn :
       /\ toSpawn' = toSpawn \ {index_uid}
       /\ cur' = index_uid
       /\ IF index_uid \in index_config_by_index_id
            THEN /\ index_config_by_index_id' = index_config_by_index_id \ {index_uid}
                 /\ spawnAttempted' = spawnAttempted \cup {index_uid}
                 /\ spawnCalls' = spawnCalls + 1
                 /\ pc' = "resolve"
                 /\ UNCHANGED actorState
            ELSE /\ pc' = "panic"
                 /\ actorState' = "panicked"
                 /\ UNCHANGED <<index_config_by_index_id, spawnAttempted, spawnCalls>>
  /\ UNCHANGED <<storeVars, workerVars, pipeline_handles_by_index_uid, timerVars,
                 index_uids, pipeline_index_uids, toRemove, pipeline_handle, listResult,
                 handlesAtStart, killRequested, killAcked, spawnFailed, spawnedAs, fetchedAs,
                 lastHistory, obsHistory, convHistory>>

\* mutant: the error of spawn_pipeline is handed on with `?` and ends the pass
AfterSpawnErr_Abort == "schedule"

\* where the pass goes when spawn_pipeline returned Err: warn!, next iteration
AfterSpawnErr == "spawn"

\* spawn_pipeline returned Err (from resolve or from index_metadata)
SpawnErr ==
  /\ spawnFailed' = spawnFailed \cup {cur}
  /\ pc' = AfterSpawnErr
  /\ UNCHANGED <<storeVars, workerVars, pipeline_handles_by_index_uid, actorState,
                 timerVars, localVars, listResult, handlesAtStart, killRequested,
                 killAcked, spawnAttempted, spawnedAs, attemptHistory, lastHistory, obsHistory,
                 convHistory>>

\* storage_resolver.resolve(&index_uri).await? returned Ok
ResolveOk ==
  /\ pc = "resolve"
  /\ pc' = "fetch"
  /\ UNCHANGED <<storeVars, workerVars, pipeline_handles_by_index_uid, actorState,
                 timerVars, localVars, passHistory, lastHistory, obsHistory, convHistory>>

\* storage_resolver.resolve(&index_uri).await? returned Err
ResolveErr ==
  /\ pc = "resolve"
  /\ SpawnErr

\* mutant: the handle is inserted under the uid of the listing
InsertKey_Listed(listed_uid, fetched_uid) == listed_uid

\* the key spawn_pipeline inserts the handle under: index_metadata.index_uid
InsertKey(listed_uid, fetched_uid) == fetched_uid

\* index_metadata(..).await?.deserialize_index_metadata()? returned Ok; the pipeline
\* is built with the fetched uid, spawned, and its handle inserted
FetchOk ==
  /\ pc = "fetch"
  /\ FreeSlots # {}
  /\ \E fetched \in IndexMetadata(IndexIdOf(cur)) :
       LET w == Min(FreeSlots) IN
       /\ wstate' = [wstate EXCEPT ![w] = "live"]
       /\ wuid' = [wuid EXCEPT ![w] = fetched]
       /\ pipeline_handles_by_index_uid' =
            MapInsert(pipeline_handles_by_index_uid, InsertKey(cur, fetched), w)
       /\ spawnedAs' = spawnedAs \cup {<<cur, InsertKey(cur, fetched)>>}
       /\ fetchedAs' = fetchedAs \cup {<<cur, fetched>>}
  /\ pc' = "spawn"
  /\ UNCHANGED <<storeVars, actorState, timerVars, localVars, listResult,
                 handlesAtStart, killRequested, killAcked, spawnAttempted, spawnFailed,
                 spawnCalls, lastHistory, obsHistory, convHistory>>

\* index_metadata(..).await? or deserialize_index_metadata()? returned Err
\* (the index is gone, or the metastore failed)
FetchErr ==
  /\ pc = "fetch"
  /\ SpawnErr

\* mutant: the second loop can be left before it is over
SpawnDone_Early ==
  /\ pc = "spawn"
  /\ pc' = "schedule"
  /\ UNCHANGED <<storeVars, workerVars, pipeline_handles_by_index_uid, actorState,
                 timerVars, localVars, passHistory, lastHistory, obsHistory, convHistory>>

\* the second loop is over: update_pipeline_handles returns Ok(())
SpawnDone ==
  /\ pc = "spawn"
  /\ toSpawn = {}
  /\ pc' = "schedule"
  /\ UNCHANGED <<storeVars, workerVars, pipeline_handles_by_index_uid, actorState,
                 timerVars, localVars, passHistory, lastHistory, obsHistory, convHistory>>

\* ------------------------------------------------------ Handler<UpdatePipelines>
\* result of update_pipeline_handles: Err only from the listing's `?`
PassResult == IF listResult = "err" THEN "err" ELSE "ok"

\* mutant: handle() hands the error of the pass on
HandleReturn_Propagate(result) == result

\* what handle() returns: Ok(()) whatever the pass returned
HandleReturn(result) == "ok"

\* the actor after handle() returned `ret`; initialize() hands it on with `?`
ActorAfterHandle(state, ret) ==
  IF ret = "ok" THEN (IF state = "initializing" THEN "running" ELSE state)
  ELSE "exited"

\* mutant: the next message is scheduled only after a pass that returned Ok
ScheduleSelfMsg_OnSuccess(armed, result) == IF result = "ok" THEN armed + 1 ELSE armed

\* ctx.schedule_self_msg(UPDATE_PIPELINES_INTERVAL, UpdatePipelines): the timers armed
\* once handle() has run it, given the result of the pass
ScheduleSelfMsg(armed, result) == armed + 1

\* how the pass that is ending went
PassOutcome ==
  IF listResult = "err" THEN "list_err"
  ELSE IF spawnFailed # {} THEN "spawn_err" ELSE "clean"

\* error!(..) if the pass failed; ctx.schedule_self_msg(UPDATE_PIPELINES_INTERVAL,
\* UpdatePipelines); Ok(()).  The locals of the pass are dropped.
Schedule ==
  /\ pc = "schedule"
  /\ scheduled' = ScheduleSelfMsg(scheduled, PassResult)
  /\ pc' = "idle"
  /\ actorState' = ActorAfterHandle(actorState, HandleReturn(PassResult))
  /\ index_config_by_index_id' = {}
  /\ index_uids' = {}
  /\ pipeline_index_uids' = {}
  /\ toRemove' = {}
  /\ toSpawn' = {}
  /\ cur' = NoUid
  /\ pipeline_handle' = NoHandle
  /\ listResult' = "none"
  /\ handlesAtStart' = EmptyMap
  /\ killRequested' = {}
  /\ killAcked' = {}
  /\ spawnAttempted' = {}
  /\ spawnFailed' = {}
  /\ spawnedAs' = {}
  /\ spawnCalls' = 0
  /\ fetchedAs' = {}
  /\ lastOutcome' = PassOutcome
  /\ lastListing' = IF PassOutcome = "clean" THEN index_uids ELSE {}
  /\ converged' = (converged \/ (~changedSinceStart /\ PassOutcome = "clean"))
  /\ UNCHANGED <<storeVars, workerVars, pipeline_handles_by_index_uid, queued,
                 obsHistory, changedSinceStart>>

\* UPDATE_PIPELINES_INTERVAL has elapsed: the scheduled message reaches the mailbox
TimerFire ==
  /\ scheduled > 0
  /\ scheduled' = scheduled - 1
  /\ queued' = queued + 1
  /\ UNCHANGED <<storeVars, workerVars, pipeline_handles_by_index_uid, actorState, pc,
                 localVars, passHistory, lastHistory, obsHistory, convHistory>>

\* process_pending_and_observe(): the running actor, between two messages, serves
\* observable_state()
Observe ==
  /\ actorState = "running"
  /\ pc = "idle"
  /\ observed = <<>>
  /\ observed' = <<num_running_pipelines>>
  /\ UNCHANGED <<storeVars, workerVars, pipeline_handles_by_index_uid, actorState, pc,
                 timerVars, localVars, passHistory, lastHistory, handledMsg,
                 convHistory>>

\* ------------------------------------------------------------ specification
\* DeleteTaskService::new: the handle map is Default::default()
Init ==
  /\ store = {}
  /\ nextInc = [id \in IndexIds |-> 1]
  /\ wstate = [w \in WorkerSlots |-> "free"]
  /\ wuid = [w \in WorkerSlots |-> NoUid]
  /\ pipeline_handles_by_index_uid = EmptyMap
  /\ actorState = "created"
  /\ pc = "idle"
  /\ scheduled = 0
  /\ queued = 0
  /\ index_config_by_index_id = {}
  /\ index_uids = {}
  /\ pipeline_index_uids = {}
  /\ toRemove = {}
  /\ toSpawn = {}
  /\ cur = NoUid
  /\ pipeline_handle = NoHandle
  /\ listResult = "none"
  /\ handlesAtStart = EmptyMap
  /\ killRequested = {}
  /\ killAcked = {}
  /\ spawnAttempted = {}
  /\ spawnFailed = {}
  /\ spawnedAs = {}
  /\ spawnCalls = 0
  /\ fetchedAs = {}
  /\ lastOutcome = "none"
  /\ lastListing = {}
  /\ changedSinceStart = FALSE
  /\ converged = FALSE
  /\ handledMsg = FALSE
  /\ observed = <<>>

StoreNext ==
  \/ \E id \in IndexIds : CreateIndex(id)
  \/ \E uid \in Uids : DeleteIndex(uid)

ServiceNext ==
  \/ Initialize
  \/ HandleUpdatePipelines
  \/ ListOk
  \/ ListErr
  \/ RemoveNext
  \/ KillRequest
  \/ KillAck
  \/ RemoveDone
  \/ SpawnNext
  \/ ResolveOk
  \/ ResolveErr
  \/ FetchOk
  \/ FetchErr
  \/ SpawnDone
  \/ Schedule
  \/ TimerFire

Next == StoreNext \/ ServiceNext \/ Observe

Spec == Init /\ [][Next]_vars

\* the runtime runs the actor, external calls return, the timer fires
FairSpec == Spec /\ WF_vars(ServiceNext)

\* ================================================================== claims
KeysNow     == Keys(pipeline_handles_by_index_uid)
KeysAtStart == Keys(handlesAtStart)
LiveWorkers == {w \in WorkerSlots : wstate[w] \in {"live", "killing"}}
IdsOf(S)    == {IndexIdOf(u) : u \in S}
PassEnded   == pc = "schedule"
TimerCount  == scheduled + queued + (IF InPass THEN 1 ELSE 0)

\* C1 (convergence): once a pass has begun after the last change of the store and
\* ended with neither a listing nor a spawn failure, num_running_pipelines equals the
\* number of indexes of the store, and it stays so, through every later pass, for as
\* long as the store does not change.
C1_Convergence == converged => num_running_pipelines = Cardinality(store)

\* the store went through a creation and a deletion at least, one index is left, and
\* a pass taken from the mailbox has converged on it
C1_Witness ==
  /\ converged
  /\ handledMsg
  /\ pc = "idle"
  /\ NumCreated >= 2
  /\ Cardinality(store) = 1
  /\ num_running_pipelines = 1

\* C2 (one live worker per resource): in every state, no two pipelines that are live
\* (spawned, and their kill not yet acknowledged) are pipelines of the same index_id,
\* hence none of the same IndexUid either.
C2_OneLiveWorkerPerId ==
  \A w1, w2 \in LiveWorkers :
    IndexIdOf(wuid[w1]) = IndexIdOf(wuid[w2]) => w1 = w2

\* an index was deleted and created again, and the pipeline of its second
\* incarnation is live
C2_Witness ==
  \E w \in LiveWorkers : wstate[w] = "live" /\ IncarnationOf(wuid[w]) >= 2

\* C3 (removal precedes addition): from the first spawn attempt of a pass on, every
\* pipeline whose uid was a key at the start of the pass and is not listed has been
\* removed from the map, sent a kill and seen to exit; no kill is outstanding.
C3_RemovalPrecedesAddition ==
  (pc \in {"spawn", "resolve", "fetch"} \/ spawnAttempted # {}) =>
    /\ toRemove = {}
    /\ killRequested = KeysAtStart \ index_uids
    /\ killAcked = killRequested
    /\ KeysNow \cap killAcked = {}
    /\ \A w \in WorkerSlots : wstate[w] # "killing"

\* the pass is about to fetch the descriptor of an index whose previous incarnation's
\* pipeline it has killed
C3_Witness ==
  /\ pc = "fetch"
  /\ \E u \in killAcked : IndexIdOf(u) = IndexIdOf(cur) /\ u # cur

\* C4 (idempotence): when the previous pass listed successfully and had no spawn
\* failure, and this pass lists the same set, this pass sends no kill, attempts no
\* spawn and leaves the map as it was.
C4_Idempotence ==
  (lastOutcome = "clean" /\ listResult = "ok" /\ index_uids = lastListing) =>
    /\ toRemove = {}
    /\ toSpawn = {}
    /\ killRequested = {}
    /\ spawnAttempted = {}
    /\ pipeline_handles_by_index_uid = handlesAtStart

\* the second of two passes that listed the same two indexes has ended
C4_Witness ==
  /\ PassEnded
  /\ lastOutcome = "clean"
  /\ listResult = "ok"
  /\ index_uids = lastListing
  /\ Cardinality(lastListing) = 2

\* C5 as stated (key set = listing): after a pass whose listing succeeded and in which
\* every spawn succeeded, the key set of the map is exactly the listed set of uids.
C5_KeysEqualListing_AsStated ==
  (PassEnded /\ listResult = "ok" /\ spawnFailed = {}) => KeysNow = index_uids

\* C5 as amended: after such a pass the keys are the listed uids that already had a
\* pipeline plus, for every other listed uid, the uid its descriptor fetch returned
\* (same index_id; the listed uid itself unless the index was created again between
\* the listing and the fetch); every key maps to a live pipeline built for that uid;
\* so map and listing agree by index_id and by count, and by uid when the store did
\* not change during the pass.
C5_KeysAgreeWithListing ==
  (PassEnded /\ listResult = "ok" /\ spawnFailed = {}) =>
    /\ KeysNow = (index_uids \cap KeysAtStart) \cup {p[2] : p \in spawnedAs}
    /\ {p[1] : p \in spawnedAs} = index_uids \ KeysAtStart
    /\ \A p \in spawnedAs :
         /\ IndexIdOf(p[2]) = IndexIdOf(p[1])
         /\ IncarnationOf(p[2]) >= IncarnationOf(p[1])
    /\ \A u \in KeysNow :
         /\ wstate[pipeline_handles_by_index_uid[u]] = "live"
         /\ wuid[pipeline_handles_by_index_uid[u]] = u
    /\ IdsOf(KeysNow) = IdsOf(index_uids)
    /\ Cardinality(KeysNow) = Cardinality(index_uids)
    /\ (~changedSinceStart => KeysNow = index_uids)

\* a pass without failure ends with a key that is a later incarnation of a listed uid
C5_Witness ==
  /\ PassEnded
  /\ listResult = "ok"
  /\ spawnFailed = {}
  /\ \E p \in spawnedAs : p[2] # p[1] /\ p[2] \in KeysNow /\ p[1] \in index_uids

\* C6 (pass-level failure): a pass whose listing failed ends with the map as it was at
\* its start, no kill sent, no spawn attempted, no pipeline started; and once it has
\* ended one UpdatePipelines is scheduled or queued and the actor is still running.
C6_ListFailureLeavesMap ==
  /\ listResult = "err" =>
       /\ PassEnded
       /\ pipeline_handles_by_index_uid = handlesAtStart
       /\ killRequested = {}
       /\ killAcked = {}
       /\ spawnAttempted = {}
       /\ spawnedAs = {}
       /\ \A u \in KeysNow : wstate[pipeline_handles_by_index_uid[u]] = "live"
  /\ (pc = "idle" /\ lastOutcome = "list_err") =>
       /\ scheduled + queued = 1
       /\ actorState = "running"

\* a pass failed to list while the map disagreed with the store, and has ended with the
\* next message scheduled
C6_Witness ==
  /\ pc = "idle"
  /\ lastOutcome = "list_err"
  /\ scheduled = 1
  /\ KeysNow # {}
  /\ KeysNow \cap store = {}
  /\ store # {}

\* C7 (spawn failure is isolated): at the end of a pass that listed successfully, a
\* spawn was attempted for every listed uid that had no pipeline, whatever failed; a
\* uid whose spawn failed has no map entry and no live pipeline (nor has any other
\* incarnation of its index_id); the removals of the pass stand; and once the pass has
\* ended with a spawn failure one UpdatePipelines is scheduled or queued and the
\* actor is still running.
C7_SpawnFailureIsolated ==
  /\ (PassEnded /\ listResult = "ok") =>
       /\ spawnAttempted = index_uids \ KeysAtStart
       /\ spawnFailed \subseteq spawnAttempted
       /\ {p[1] : p \in spawnedAs} = spawnAttempted \ spawnFailed
       /\ \A l \in spawnFailed :
            /\ \A u \in KeysNow : IndexIdOf(u) # IndexIdOf(l)
            /\ \A w \in LiveWorkers : IndexIdOf(wuid[w]) # IndexIdOf(l)
       /\ killAcked = KeysAtStart \ index_uids
       /\ KeysNow \cap killAcked = {}
  /\ (pc = "idle" /\ lastOutcome = "spawn_err") =>
       /\ scheduled + queued = 1
       /\ actorState = "running"

\* a pass ends in which one pipeline was killed, one spawn failed and one succeeded
C7_Witness ==
  /\ PassEnded
  /\ listResult = "ok"
  /\ spawnFailed # {}
  /\ spawnedAs # {}
  /\ killAcked # {}

\* C8 (single timer, serialized passes): from the start of initialization on, the
\* UpdatePipelines messages scheduled or queued plus the pass in progress (none or
\* one) count exactly one.
C8_SingleTimer == actorState # "created" => TimerCount = 1

\* a failed pass has ended and its successor's message is in the mailbox
C8_Witness ==
  /\ pc = "idle"
  /\ queued = 1
  /\ handledMsg
  /\ lastOutcome = "list_err"

\* C9 (no pass error is fatal): the actor never exits or panics, whatever fails in a
\* pass, and, the runtime running it, every external call returning and the timer
\* firing, reconciliation passes begin again and again forever.
C9_PassesForever ==
  /\ [](actorState \notin {"exited", "panicked"})
  /\ []<>(pc = "list")

\* a pass begins right after a pass that failed to list
C9_Witness ==
  /\ pc = "list"
  /\ handledMsg
  /\ lastOutcome = "list_err"

\* C10 (startup pass): no snapshot is served and no queued message is taken before
\* the pass run by initialize has ended; and the snapshot served before any queued
\* UpdatePipelines is handled, after a startup pass that listed n > 0 indexes with
\* neither listing nor spawn failure, shows num_running_pipelines = n.
C10_StartupPass ==
  /\ actorState \in {"created", "initializing"} =>
       /\ observed = <<>>
       /\ ~handledMsg
       /\ lastOutcome = "none"
  /\ observed # <<>> => lastOutcome # "none"
  /\ (observed # <<>> /\ ~handledMsg /\ lastOutcome = "clean" /\ lastListing # {}) =>
       /\ observed[1] = Cardinality(lastListing)
       /\ observed[1] > 0

\* the first snapshot of a service started on a store of two indexes shows 2
C10_Witness ==
  /\ observed = <<2>>
  /\ ~handledMsg
  /\ lastOutcome = "clean"
  /\ Cardinality(lastListing) = 2

\* C11 (stop set exactness): in a pass that listed successfully a kill is only ever
\* sent to the pipeline that was mapped, at the start of the pass, by a key absent
\* from the listing; no pipeline of a listed uid is being killed; and at the end of
\* the pass every such key has been removed from the map and its pipeline's kill
\* sent and acknowledged.
C11_StopSetExact ==
  listResult = "ok" =>
    /\ killRequested \subseteq KeysAtStart \ index_uids
    /\ killAcked \subseteq killRequested
    /\ KeysNow \cap killRequested = {}
    /\ \A w \in WorkerSlots : wstate[w] = "killing" =>
         /\ wuid[w] \notin index_uids
         /\ wuid[w] = cur
         /\ handlesAtStart[cur] = w
    /\ PassEnded =>
         /\ killRequested = KeysAtStart \ index_uids
         /\ killAcked = killRequested
         /\ \A u \in killAcked : \A w \in LiveWorkers : wuid[w] # u

\* a pass ends that killed one pipeline and kept another
C11_Witness ==
  /\ PassEnded
  /\ listResult = "ok"
  /\ killAcked # {}
  /\ KeysAtStart \cap index_uids # {}

\* C12 (retained workers are untouched): throughout a pass that listed successfully,
\* every uid that was a key at the start of the pass and is listed is still mapped to
\* the same handle, whose pipeline is live and was neither sent a kill nor spawned
\* again in this pass.
C12_RetainedUntouched ==
  listResult = "ok" =>
    \A u \in KeysAtStart \cap index_uids :
      /\ u \in KeysNow
      /\ pipeline_handles_by_index_uid[u] = handlesAtStart[u]
      /\ wstate[handlesAtStart[u]] = "live"
      /\ wuid[handlesAtStart[u]] = u
      /\ u \notin killRequested
      /\ u \notin spawnAttempted
      /\ \A p \in spawnedAs : p[2] # u

\* a pass ends that kept one pipeline, killed one and spawned one
C12_Witness ==
  /\ PassEnded
  /\ listResult = "ok"
  /\ KeysAtStart \cap index_uids # {}
  /\ killAcked # {}
  /\ spawnedAs # {}

\* C13 (retry of outstanding resources): in a pass that listed successfully spawn is
\* attempted only for listed uids without entry at the start of the pass, at most once
\* each, and at the end of the pass exactly once for each of them, whatever failed
\* in this pass or before.
C13_OneAttemptPerMissing ==
  listResult = "ok" =>
    /\ spawnAttempted \subseteq index_uids \ KeysAtStart
    /\ spawnAttempted \cap toSpawn = {}
    /\ spawnCalls = Cardinality(spawnAttempted)
    /\ PassEnded =>
         /\ spawnAttempted = index_uids \ KeysAtStart
         /\ spawnCalls = Cardinality(index_uids \ KeysAtStart)

\* the only index ever created had its spawn fail in the previous pass, and this pass
\* has spawned its pipeline
C13_Witness ==
  /\ PassEnded
  /\ lastOutcome = "spawn_err"
  /\ NumCreated = 1
  /\ spawnFailed = {}
  /\ Cardinality(spawnedAs) = 1
  /\ num_running_pipelines = 1

\* C14 (the fetched uid is authoritative): every handle a pass inserts is inserted
\* under the uid the descriptor fetch returned, the uid its pipeline was built with;
\* when that uid differs from the listed one, the map has the fetched uid for key
\* and not the listed one.
C14_FetchedUidIsKey ==
  /\ spawnedAs = fetchedAs
  /\ \A p \in fetchedAs :
       /\ p[2] \in KeysNow
       /\ wuid[pipeline_handles_by_index_uid[p[2]]] = p[2]
       /\ wstate[pipeline_handles_by_index_uid[p[2]]] = "live"
       /\ p[2] # p[1] => p[1] \notin KeysNow

\* a handle was inserted under a fetched uid that is not the listed one
C14_Witness ==
  \E p \in fetchedAs : p[2] # p[1] /\ p[2] \in KeysNow

\* pipelines that are live or being killed and whose handle is not in the map
Unmapped ==
  {w \in LiveWorkers : \A u \in KeysNow : pipeline_handles_by_index_uid[u] # w}

\* C15 (remove, then kill and wait, one at a time): a pipeline is sent its kill only
\* after its entry has left the map; the handler goes to the next stale uid only when
\* the kill it sent has been acknowledged; so at most one pipeline is out of the map
\* and not yet seen to exit, and it is the one the handler holds.
C15_RemoveThenAwaitKill ==
  /\ Cardinality(Unmapped) <= 1
  /\ \A w \in WorkerSlots : wstate[w] = "killing" =>
       /\ w \in Unmapped
       /\ wuid[w] \notin KeysNow
       /\ pc = "kill_wait"
  /\ pc = "kill" =>
       /\ cur \notin KeysNow
       /\ cur \notin killRequested
       /\ Unmapped = {pipeline_handle[1]}
       /\ wstate[pipeline_handle[1]] = "live"
       /\ killRequested = killAcked
  /\ pc = "kill_wait" =>
       /\ cur \notin KeysNow
       /\ Unmapped = {pipeline_handle[1]}
       /\ wstate[pipeline_handle[1]] = "killing"
       /\ killRequested = killAcked \cup {cur}
       /\ cur \notin killAcked
  /\ pc \notin {"kill", "kill_wait"} =>
       /\ Unmapped = {}
       /\ killRequested = killAcked

\* the handler waits for the exit of a second stale pipeline, the exit of the first
\* one being acknowledged
C15_Witness ==
  /\ pc = "kill_wait"
  /\ Cardinality(killAcked) = 1
  /\ Cardinality(killRequested) = 2

\* the .await points of a pass
AwaitPoints == {"list", "kill_wait", "resolve", "fetch"}

\* C16 (a hang stalls reconciliation): while a pass is in progress no UpdatePipelines
\* is scheduled or queued; and for as long as the pass stays suspended on the same
\* external call nothing of the service changes: no pass begins, the map, the
\* pipelines and the timer stay as they are.
C16_HangStalls ==
  /\ [](InPass => scheduled = 0 /\ queued = 0)
  /\ [][(pc \in AwaitPoints /\ pc' = pc) =>
          UNCHANGED <<pipeline_handles_by_index_uid, workerVars, timerVars, actorState,
                      localVars, passHistory, lastHistory, obsHistory>>]_vars

\* a pass taken from the mailbox is suspended on the exit of a pipeline while the
\* store has changed again
C16_Witness ==
  /\ pc = "kill_wait"
  /\ handledMsg
  /\ changedSinceStart
  /\ scheduled = 0
  /\ queued = 0

\* pipelines that run, were not sent a kill, and whose handle is not in the map
Orphans ==
  {w \in WorkerSlots :
     /\ wstate[w] = "live"
     /\ \A u \in KeysNow : pipeline_handles_by_index_uid[u] # w}

\* C17 (no orphaned workers): whenever the actor is idle or suspended on an .await,
\* every pipeline that runs and was not sent a kill has its handle in the map, under
\* its own uid, and no two keys share a handle; an insert never meets an existing
\* entry of its key.  (Between remove() and the kill() that follows it without
\* suspending, the one removed handle is held by the handler.)
C17_NoOrphans ==
  /\ pc # "kill" => Orphans = {}
  /\ pc = "kill" => Orphans = {pipeline_handle[1]}
  /\ \A u \in KeysNow :
       /\ wstate[pipeline_handles_by_index_uid[u]] = "live"
       /\ wuid[pipeline_handles_by_index_uid[u]] = u
  /\ \A u1, u2 \in KeysNow :
       pipeline_handles_by_index_uid[u1] = pipeline_handles_by_index_uid[u2] => u1 = u2
  /\ pc = "fetch" =>
       /\ cur \notin KeysNow
       /\ \A fetched \in IndexMetadata(IndexIdOf(cur)) : fetched \notin KeysNow

\* a pass has killed a pipeline and inserted a handle beside one it kept
C17_Witness ==
  /\ pc = "spawn"
  /\ spawnedAs # {}
  /\ killAcked # {}
  /\ Cardinality(KeysNow) = 2
  /\ KeysAtStart \cap index_uids # {}

\* C18 (the expect() calls never fail): the actor never panics; every uid left in
\* the first loop is a key of the handle map, and every uid left in the second loop
\* is a key of the map built from the listing.
C18_ExpectsNeverFail ==
  /\ actorState # "panicked"
  /\ pc # "panic"
  /\ toRemove \subseteq KeysNow
  /\ toSpawn \subseteq index_config_by_index_id
  /\ pc \in {"kill", "kill_wait"} => cur \in KeysAtStart
  /\ pc \in {"resolve", "fetch"} => cur \in index_uids

\* both expect() calls have been passed twice in one pass
C18_Witness ==
  /\ PassEnded
  /\ actorState = "running"
  /\ Cardinality(killAcked) = 1
  /\ Cardinality(spawnAttempted) = 2

====
